---- MODULE Spec2Model ----
(***************************************************************************)
(* Thin-film simulation (src/src/routes/thinfilm/+page.svelte and          *)
(* LightBeam.svelte).  The page file holds two script blocks: the current  *)
(* page (lines 1-568, "variant 1", which renders LightBeam components) and *)
(* an earlier page (lines 570-1011, "variant 2", which renders plain       *)
(* lines).  src/unnamed/part_000 is the earlier LightBeam component.       *)
(*                                                                         *)
(* Numbers.  JavaScript doubles are modelled in fixed point:               *)
(*   - dimensionless values, radians and phases are integers scaled by     *)
(*     Scale (1.0 is Scale);                                               *)
(*   - pixel coordinates and lengths are integers in 1/PxScale pixel.      *)
(* Math.sin, Math.asin, Math.tan and Math.sqrt are computed (series and    *)
(* bisection), so every trigonometric identity below is a fact about the   *)
(* computation and holds only up to Tolerance.                             *)
(***************************************************************************)
EXTENDS Integers, Sequences, FiniteSets, TLC

Scale == 10^4
PxScale == 10^2

\* Math.PI, scaled by Scale
PI == 31416
TwoPI == 2 * PI
HalfPI == PI \div 2

\* the value NaN of a double; no modelled quantity reaches it
NaN == -(2^30)

Abs(x) == IF x < 0 THEN -x ELSE x

\* a / b for b > 0, rounded to nearest, symmetric about 0
RDiv(a, b) ==
  IF a >= 0 THEN (a + b \div 2) \div b ELSE -((-a + b \div 2) \div b)

\* product of two Scale-scaled values
MulS(a, b) == RDiv(a * b, Scale)

RECURSIVE SqrtIter(_, _, _)
SqrtIter(n, lo, hi) ==
  IF lo >= hi THEN lo
  ELSE LET mid == (lo + hi + 1) \div 2
       IN IF mid * mid <= n THEN SqrtIter(n, mid, hi) ELSE SqrtIter(n, lo, mid - 1)

\* floor of the square root of n, 0 <= n < 2^31; NaN for n < 0
ISqrt(n) == IF n < 0 THEN NaN ELSE SqrtIter(n, 0, 46340)

\* Math.sqrt on a Scale-scaled value
SqrtS(x) == ISqrt(x * Scale)

\* sine series on [0, pi/2]
SinQ(x) ==
  LET x2 == MulS(x, x)
      t4 == Scale - RDiv(x2, 72)
      t3 == Scale - RDiv(MulS(x2, t4), 42)
      t2 == Scale - RDiv(MulS(x2, t3), 20)
      t1 == Scale - RDiv(MulS(x2, t2), 6)
  IN MulS(x, t1)

\* Math.sin
Sin(x) ==
  LET r == x % TwoPI
      h == IF r > PI THEN r - PI ELSE r
      q == IF h > HalfPI THEN PI - h ELSE h
  IN IF r > PI THEN -SinQ(q) ELSE SinQ(q)

\* Math.cos
Cos(x) == Sin(x + HalfPI)

\* Math.tan
Tan(x) == RDiv(Sin(x) * Scale, Cos(x))

\* arcsine series, used for |x| <= 1/2
AsinSeries(x) ==
  LET x2 == MulS(x, x)
      t5 == Scale + RDiv(81 * x2, 110)
      t4 == Scale + RDiv(49 * MulS(x2, t5), 72)
      t3 == Scale + RDiv(25 * MulS(x2, t4), 42)
      t2 == Scale + RDiv(9 * MulS(x2, t3), 20)
      t1 == Scale + RDiv(MulS(x2, t2), 6)
  IN MulS(x, t1)

\* Math.asin: NaN outside [-1, 1]
Asin(x) ==
  IF Abs(x) > Scale THEN NaN
  ELSE IF 2 * Abs(x) <= Scale THEN AsinSeries(x)
  ELSE LET a == HalfPI - 2 * AsinSeries(SqrtS((Scale - Abs(x)) \div 2))
       IN IF x < 0 THEN -a ELSE a


(***************************************************************************)
(* The page: +page.svelte                                                  *)
(***************************************************************************)
\* previous is a history variable: what the page showed before the last input
VARIABLES variant, angleDegrees, filmThicknessNm, selectedFilmIndex, previous

vars == <<variant, angleDegrees, filmThicknessNm, selectedFilmIndex, previous>>

\* the two script blocks of +page.svelte
Variants == {1, 2}

\* pixels to coordinate units
Px(n) == n * PxScale

\* Non-adjustable parameters
wavelengthNm == 500
airN == Scale
substrateN == (15 * Scale) \div 10

\* 0.3 pixel per nanometre, in coordinate units per nanometre
nmToPixels == (3 * PxScale) \div 10

filmThicknessRange == [min |-> 10, max |-> 700]
angleRange == [min |-> 0, max |-> 30]

\* refractive indices scaled by Scale; JavaScript index i is element i + 1
filmMaterials ==
  IF variant = 1
  THEN << [label |-> "Test", n |-> 3 * Scale],
          [label |-> "MgF2", n |-> (138 * Scale) \div 100],
          [label |-> "SiO2", n |-> (165 * Scale) \div 100] >>
  ELSE << [label |-> "MgF2", n |-> (138 * Scale) \div 100],
          [label |-> "SiO2", n |-> (165 * Scale) \div 100] >>

\* SVG dimensions and layout
svgWidth == Px(800)
centerX == svgWidth \div 2

\* Layer positions
filmTop == Px(200)
filmBottom ==
  IF variant = 1 THEN filmTop + filmThicknessNm * nmToPixels ELSE Px(250)
substrateTop == filmBottom
substrateBottom == Px(400)

\* the film and substrate rectangles of the SVG (y, height)
filmRect == [y |-> filmTop, height |-> filmBottom - filmTop]
substrateRect == [y |-> substrateTop, height |-> substrateBottom - substrateTop]

\* Beam parameters
beamLength == Px(150)
beamStartY == Px(50)

angleRad == RDiv(angleDegrees * PI, 180)
filmN == filmMaterials[selectedFilmIndex + 1].n

\* a coordinate offset tan(a) * d
TanTimes(a, d) == IF a = NaN THEN NaN ELSE RDiv(Tan(a) * d, Scale)

\* x + y on doubles
Plus(x, y) == IF x = NaN \/ y = NaN THEN NaN ELSE x + y

\* the incident beam drawn down to the film's lower boundary
incidentEndX_toBottom == centerX + TanTimes(angleRad, filmBottom - beamStartY)
incidentEndX == centerX + TanTimes(angleRad, filmTop - beamStartY)
incidentEndY == filmTop

reflectedStartX == incidentEndX
reflectedStartY == filmTop
reflectedEndX == reflectedStartX + TanTimes(angleRad, beamLength)
reflectedEndY == reflectedStartY - beamLength

\* the two indices exchanged
sinRefracted_swapped == RDiv(MulS(filmN, Sin(angleRad)) * Scale, airN)
\* cosine in place of sine
sinRefracted_cos == RDiv(MulS(airN, Cos(angleRad)) * Scale, filmN)
\* Snell's law
sinRefracted == RDiv(MulS(airN, Sin(angleRad)) * Scale, filmN)
refractedAngleRad == Asin(sinRefracted)

refractedStartX == incidentEndX
refractedStartY == filmTop
filmThickness == filmBottom - filmTop
refractedEndX ==
  Plus(refractedStartX, TanTimes(refractedAngleRad, filmThickness))
refractedEndY == filmBottom

substrateReflectedStartX == refractedEndX
substrateReflectedStartY == IF variant = 1 THEN filmBottom ELSE substrateBottom
substrateReflectedEndX ==
  Plus(substrateReflectedStartX, TanTimes(refractedAngleRad, filmThickness))
substrateReflectedEndY == filmTop

\* variant 1 only
finalTransmissionStartX == substrateReflectedEndX
finalTransmissionStartY == filmTop
\* the exit drawn at the refraction angle
finalTransmissionEndX_refracted ==
  Plus(finalTransmissionStartX, TanTimes(refractedAngleRad, beamLength))
finalTransmissionEndX ==
  Plus(finalTransmissionStartX, TanTimes(angleRad, beamLength))
finalTransmissionEndY == finalTransmissionStartY - beamLength

\* wavelengths in coordinate units for each medium
airWavelengthPx == wavelengthNm * nmToPixels
filmWavelengthPx == RDiv(wavelengthNm * Scale * nmToPixels, filmN)

\* Math.sqrt(dx^2 + dy^2), in coordinate units
Hypot(dx, dy) == ISqrt(dx * dx + dy * dy)

\* 2 * pi * len / wavelength, a phase scaled by Scale
PhaseOver(len, wl) == RDiv(len * TwoPI, wl)

refractedPathLength ==
  Hypot(refractedEndX - refractedStartX, refractedEndY - refractedStartY)
refractedPhaseAtEnd == PhaseOver(refractedPathLength, filmWavelengthPx)

\* the half-wave flip applied on the wrong side
substrateReflectionPhaseShift_flipped ==
  -refractedPhaseAtEnd + (IF filmN > substrateN THEN PI ELSE 0)
substrateReflectionPhaseShift ==
  -refractedPhaseAtEnd + (IF filmN < substrateN THEN PI ELSE 0)

substrateReflectionPathLength ==
  Hypot(substrateReflectedEndX - substrateReflectedStartX,
        substrateReflectedEndY - substrateReflectedStartY)
\* the return path's phase added instead of subtracted
substrateReflectionPhaseAtEnd_added ==
  substrateReflectionPhaseShift
    + PhaseOver(substrateReflectionPathLength, filmWavelengthPx)
substrateReflectionPhaseAtEnd ==
  substrateReflectionPhaseShift
    - PhaseOver(substrateReflectionPathLength, filmWavelengthPx)

finalTransmissionPhaseShift == substrateReflectionPhaseAtEnd

(***************************************************************************)
(* User input: the two range inputs (step 1) and the material dropdown.    *)
(* The angle slider is set to any value of its range; the thickness slider *)
(* is moved one step at a time (arrow keys) or to either end of its range  *)
(* (Home and End), which reaches every value of the range.  The derived    *)
(* values above are functions of the new parameters.                       *)
(***************************************************************************)
\* the displacement of a segment
Direction(x1, y1, x2, y2) == <<x2 - x1, y2 - y1>>

\* the parameters, and the attributes of the incident, reflected and
\* transmitted beams and the refraction angle the page shows with them
Shown ==
  [angleDegrees |-> angleDegrees,
   filmThicknessNm |-> filmThicknessNm,
   selectedFilmIndex |-> selectedFilmIndex,
   incident |-> <<centerX, beamStartY, incidentEndX, incidentEndY>>,
   reflected |-> <<reflectedStartX, reflectedStartY, reflectedEndX, reflectedEndY>>,
   refractedAngleRad |-> refractedAngleRad,
   transmitted |-> Direction(finalTransmissionStartX, finalTransmissionStartY,
                             finalTransmissionEndX, finalTransmissionEndY)]

Init ==
  /\ variant \in Variants
  /\ angleDegrees = 15
  /\ filmThicknessNm = (IF variant = 1 THEN 300 ELSE 100)
  /\ selectedFilmIndex = 0
  /\ previous = Shown

SetAngle ==
  /\ \E a \in angleRange.min .. angleRange.max : angleDegrees' = a
  /\ UNCHANGED <<variant, filmThicknessNm, selectedFilmIndex>>

StepThickness ==
  /\ \E d \in {-1, 1} :
       /\ filmThicknessNm + d \in filmThicknessRange.min .. filmThicknessRange.max
       /\ filmThicknessNm' = filmThicknessNm + d
  /\ UNCHANGED <<variant, angleDegrees, selectedFilmIndex>>

EndThickness ==
  /\ \E t \in {filmThicknessRange.min, filmThicknessRange.max} :
       filmThicknessNm' = t
  /\ UNCHANGED <<variant, angleDegrees, selectedFilmIndex>>

SelectFilm ==
  /\ \E i \in 0 .. Len(filmMaterials) - 1 : selectedFilmIndex' = i
  /\ UNCHANGED <<variant, angleDegrees, filmThicknessNm>>

Next ==
  \/ SetAngle /\ UNCHANGED previous
  \/ StepThickness /\ UNCHANGED previous
  \/ EndThickness /\ UNCHANGED previous
  \/ SelectFilm /\ UNCHANGED previous

Spec == Init /\ [][Next]_vars

TypeOK ==
  /\ variant \in Variants
  /\ angleDegrees \in angleRange.min .. angleRange.max
  /\ filmThicknessNm \in filmThicknessRange.min .. filmThicknessRange.max
  /\ selectedFilmIndex \in 0 .. Len(filmMaterials) - 1

(***************************************************************************)
(* The LightBeam component: LightBeam.svelte, and its earlier version      *)
(* src/unnamed/part_000.  A beam is the record of the props the page       *)
(* passes.  sin(angle) and cos(angle) of angle = atan2(dy, dx) are dy/len  *)
(* and dx/len.  The path string "M p0 L p1 L ..." is modelled by the       *)
(* sequence of its points.                                                 *)
(***************************************************************************)
Beam(x1, y1, x2, y2, n, ws, hasPhase, phase) ==
  [x1 |-> x1, y1 |-> y1, x2 |-> x2, y2 |-> y2, refractiveIndex |-> n,
   waveStart |-> ws, hasPhaseShift |-> hasPhase, phaseShift |-> phase]

\* the <LightBeam> elements of the page (variant 1)
incidentBeam ==
  Beam(centerX, beamStartY, incidentEndX, incidentEndY, airN, "end", FALSE, 0)
reflectedBeam ==
  Beam(reflectedStartX, reflectedStartY, reflectedEndX, reflectedEndY,
       airN, "start", FALSE, 0)
refractedBeam ==
  Beam(refractedStartX, refractedStartY, refractedEndX, refractedEndY,
       filmN, "start", FALSE, 0)
substrateReflectedBeam ==
  Beam(substrateReflectedStartX, substrateReflectedStartY,
       substrateReflectedEndX, substrateReflectedEndY,
       filmN, "end", TRUE, finalTransmissionPhaseShift)
transmittedBeam ==
  Beam(finalTransmissionStartX, finalTransmissionStartY,
       finalTransmissionEndX, finalTransmissionEndY,
       airN, "start", TRUE, finalTransmissionPhaseShift * (-1))

Beams ==
  IF variant = 1
  THEN {incidentBeam, reflectedBeam, refractedBeam, substrateReflectedBeam,
        transmittedBeam}
  ELSE {}

\* Wave height in pixels
amplitude == Px(5)
\* part_000: wave height and pixels per wave
amplitude0 == Px(2)
wavelengthPx0 == Px(20)

\* One point every 5 pixels
step == Px(5)

length(b) == Hypot(b.x2 - b.x1, b.y2 - b.y1)

wavelengthPx(b) == RDiv(wavelengthNm * Scale * nmToPixels, b.refractiveIndex)

\* Math.ceil(a / d), a >= 0, d > 0
Ceil(a, d) == (a + d - 1) \div d

\* Math.floor in place of Math.ceil
numPoints_floor(b) == length(b) \div step
numPoints(b) == Ceil(length(b), step)

\* t = i / numPoints, scaled by Scale; 0 / 0 is NaN
WaveT(i, n) == IF n = 0 THEN NaN ELSE RDiv(i * Scale, n)

\* a * t for a Scale-scaled t
Times(a, t) == RDiv(a * t, Scale)

\* amp * sin(t * len * 2 * pi / wl)
SineAt(t, len, wl, amp) == Times(amp, Sin(PhaseOver(Times(len, t), wl)))

\* the phase position not mirrored for waveStart = 'end'
WaveOffset_unmirrored(b, t, len) ==
  LET phaseMultiplier == IF b.waveStart = "end" THEN -1 ELSE 1
  IN phaseMultiplier * SineAt(t, len, wavelengthPx(b), amplitude)

\* waveOffset at position t of a beam of length len (LightBeam.svelte)
WaveOffset(b, t, len) ==
  LET tPhase == IF b.waveStart = "end" THEN Scale - t ELSE t
      phaseMultiplier == IF b.waveStart = "end" THEN -1 ELSE 1
  IN phaseMultiplier * SineAt(tPhase, len, wavelengthPx(b), amplitude)

\* waveOffset at position t of a beam of length len (part_000)
WaveOffset0(b, t, len) == SineAt(t, len, wavelengthPx0, amplitude0)

\* the point at position t, given its waveOffset
WavePoint(b, t, len, waveOffset) ==
  LET x == b.x1 + Times(b.x2 - b.x1, t)
      y == b.y1 + Times(b.y2 - b.y1, t)
      perpX == -RDiv((b.y2 - b.y1) * waveOffset, len)
      perpY == RDiv((b.x2 - b.x1) * waveOffset, len)
  IN [x |-> x + perpX, y |-> y + perpY]

\* the loop stopping one sample early (i < numPoints)
generateWavePath_short(b) ==
  LET len == length(b)
      n == Ceil(len, step)
  IN [k \in 1 .. n |->
        LET t == WaveT(k - 1, n) IN WavePoint(b, t, len, WaveOffset(b, t, len))]

\* LightBeam.svelte: the points for i = 0 .. numPoints
generateWavePath(b) ==
  LET len == length(b)
      n == numPoints(b)
  IN [k \in 1 .. n + 1 |->
        LET t == WaveT(k - 1, n) IN WavePoint(b, t, len, WaveOffset(b, t, len))]

\* part_000: the points for i = 0 .. numPoints
generateWavePath0(b) ==
  LET len == length(b)
      n == numPoints(b)
  IN [k \in 1 .. n + 1 |->
        LET t == WaveT(k - 1, n) IN WavePoint(b, t, len, WaveOffset0(b, t, len))]

(***************************************************************************)
(* The same page with both sliders dragged to values AngleStep and         *)
(* ThicknessStep apart (and to the ends of their ranges): the wave paths   *)
(* are computed for every beam in every state.                             *)
(***************************************************************************)
AngleStep == 5
ThicknessStep == 30

AngleSamples ==
  {a \in angleRange.min .. angleRange.max : (a - angleRange.min) % AngleStep = 0}
    \cup {angleRange.min, angleRange.max}

ThicknessSamples ==
  {t \in filmThicknessRange.min .. filmThicknessRange.max :
     (t - filmThicknessRange.min) % ThicknessStep = 0}
    \cup {filmThicknessRange.min, filmThicknessRange.max}

DragAngle ==
  /\ \E a \in AngleSamples : angleDegrees' = a
  /\ UNCHANGED <<variant, filmThicknessNm, selectedFilmIndex>>

DragThickness ==
  /\ \E t \in ThicknessSamples : filmThicknessNm' = t
  /\ UNCHANGED <<variant, angleDegrees, selectedFilmIndex>>

PickFilm ==
  /\ \E i \in 0 .. Len(filmMaterials) - 1 : selectedFilmIndex' = i
  /\ UNCHANGED <<variant, angleDegrees, filmThicknessNm>>

NextWave ==
  \/ DragAngle /\ UNCHANGED previous
  \/ DragThickness /\ UNCHANGED previous
  \/ PickFilm /\ UNCHANGED previous

\* the same inputs, with what was shown before each of them recorded
NextFrame ==
  \/ previous' = Shown /\ DragAngle
  \/ previous' = Shown /\ DragThickness
  \/ previous' = Shown /\ PickFilm

SpecFrame == Init /\ [][NextFrame]_vars

SpecWave == Init /\ [][NextWave]_vars

\* the wave paths of the page's beams, by component version
wavePaths == [b \in Beams |-> generateWavePath(b)]
wavePaths0 == [b \in Beams |-> generateWavePath0(b)]

(***************************************************************************)
(* Properties                                                              *)
(***************************************************************************)
\* tolerance on a Scale-scaled value (5e-4)
Tolerance == Scale \div 2000

\* Snell's law never leaves the domain of Math.asin: with airN = 1 and the
\* listed materials, 0 <= sinRefracted <= 1/2 and refractedAngleRad is a number
NoTotalInternalReflection ==
  /\ 0 <= sinRefracted
  /\ 2 * sinRefracted <= Scale
  /\ refractedAngleRad # NaN

\* C1: for every thickness of the slider the layer boundaries satisfy
\* filmTop < filmBottom <= substrateBottom, so the film and the substrate
\* rectangles have non-negative heights and do not overlap.
C1_LayerOrder ==
  /\ filmTop < filmBottom
  /\ filmBottom <= substrateBottom
  /\ filmRect.height >= 0
  /\ substrateRect.height >= 0
  /\ filmRect.y + filmRect.height <= substrateRect.y

\* C5: the refraction angle t' satisfies sin(t') * filmN = sin(t) * airN
\* within Tolerance, and 0 <= t' < 90 degrees.
C5_SnellsLaw ==
  /\ Abs(MulS(Sin(refractedAngleRad), filmN) - MulS(Sin(angleRad), airN)) <= Tolerance
  /\ 0 <= refractedAngleRad
  /\ refractedAngleRad < HalfPI

C5_Witness ==
  /\ angleDegrees = angleRange.max
  /\ filmMaterials[selectedFilmIndex + 1].label = "MgF2"
  /\ refractedAngleRad > 0
  /\ refractedAngleRad < angleRad

\* C6: the transmitted beam's displacement is (tan(angleRad) * beamLength,
\* -beamLength), the same as the reflected beam's, and Snell's law applied
\* from the film back to air gives the incidence angle again.
C6_TransmittedParallelToReflected ==
  variant = 1 =>
    LET dx == finalTransmissionEndX - finalTransmissionStartX
        dy == finalTransmissionEndY - finalTransmissionStartY
    IN
    /\ dx = TanTimes(angleRad, beamLength)
    /\ dy = -beamLength
    /\ dx = reflectedEndX - reflectedStartX
    /\ dy = reflectedEndY - reflectedStartY
    /\ Abs(Asin(RDiv(MulS(filmN, Sin(refractedAngleRad)) * Scale, airN)) - angleRad)
         <= Tolerance

C6_Witness ==
  /\ variant = 1
  /\ angleDegrees = angleRange.max
  /\ filmThicknessNm = filmThicknessRange.max
  /\ finalTransmissionEndX > finalTransmissionStartX
  /\ refractedAngleRad < angleRad

\* C7: the phase shift of the substrate reflection is minus the incoming
\* phase, plus exactly pi for MgF2 (1.38 < 1.5) and plus exactly 0 for SiO2
\* (1.65) and Test (3).
C7_ReflectionPhaseShift ==
  variant = 1 =>
    LET m == filmMaterials[selectedFilmIndex + 1]
        added == substrateReflectionPhaseShift
                   + PhaseOver(refractedPathLength, filmWavelengthPx)
    IN /\ m.n < substrateN => added = PI
       /\ m.n >= substrateN => added = 0
       /\ m.label = "MgF2" => added = PI
       /\ m.label \in {"SiO2", "Test"} => added = 0

C7_Witness ==
  /\ variant = 1
  /\ filmMaterials[selectedFilmIndex + 1].label = "MgF2"
  /\ refractedPhaseAtEnd > 0
  /\ substrateReflectionPhaseShift = PI - refractedPhaseAtEnd

\* C9: at normal incidence the refraction angle is 0 and every start and
\* end x-coordinate of the beams equals centerX.
C9_NormalIncidence ==
  angleDegrees = 0 =>
    /\ refractedAngleRad = 0
    /\ incidentEndX = centerX
    /\ reflectedStartX = centerX /\ reflectedEndX = centerX
    /\ refractedStartX = centerX /\ refractedEndX = centerX
    /\ substrateReflectedStartX = centerX /\ substrateReflectedEndX = centerX
    /\ variant = 1 =>
         finalTransmissionStartX = centerX /\ finalTransmissionEndX = centerX

C9_Witness ==
  /\ angleDegrees = 0
  /\ variant = 1
  /\ filmMaterials[selectedFilmIndex + 1].label = "SiO2"
  /\ filmThicknessNm = filmThicknessRange.max
  /\ finalTransmissionEndX = centerX

\* C10: filmBottom equals filmTop + filmThicknessNm * nmToPixels, and
\* substrateTop equals filmBottom, whatever thickness the slider has set.
C10_FilmBottomDerived ==
  /\ filmBottom = filmTop + filmThicknessNm * nmToPixels
  /\ substrateTop = filmBottom

\* tolerance on a wave offset, in coordinate units (0.05 pixel)
OffsetTolerance == PxScale \div 20

\* C3: on a beam drawn from its start to which the page passes a phaseShift,
\* the offset of every sample is amplitude * sin(2 pi t L / wavelengthPx +
\* phaseShift); at t = 0 it is amplitude * sin(phaseShift).
C3_OffsetUsesStartingPhase ==
  \A b \in Beams :
    (b.hasPhaseShift /\ b.waveStart = "start") =>
      LET len == length(b)
          n == Len(wavePaths[b]) - 1
      IN \A i \in 0 .. n :
           LET t == WaveT(i, n)
               arc == PhaseOver(Times(len, t), wavelengthPx(b))
           IN Abs(WaveOffset(b, t, len) - Times(amplitude, Sin(arc + b.phaseShift)))
                <= OffsetTolerance

\* coordinate of point p along the beam b, times the beam's length
Along(b, p) == (p.x - b.x1) * (b.x2 - b.x1) + (p.y - b.y1) * (b.y2 - b.y1)

\* path has ceil(L / 5) + 1 points that advance along the beam from its
\* start to its end
SampledAlong(b, path) ==
  LET L == length(b)
      n == Len(path) - 1
  IN /\ n >= 1
     /\ (n - 1) * step < L
     /\ L <= n * step
     /\ \A k \in 1 .. n : Along(b, path[k]) < Along(b, path[k + 1])
     /\ Abs(Along(b, path[1])) <= Abs(b.x2 - b.x1) + Abs(b.y2 - b.y1)
     /\ Abs(Along(b, path[n + 1]) - Along(b, [x |-> b.x2, y |-> b.y2]))
          <= Abs(b.x2 - b.x1) + Abs(b.y2 - b.y1)

\* C4: generateWavePath produces exactly ceil(L / 5) + 1 points, ordered from
\* the start point to the end point, and the first point of a beam drawn
\* from its start is (x1, y1); so does the earlier component.
C4_SampleCount ==
  \A b \in Beams :
    /\ SampledAlong(b, wavePaths[b])
    /\ SampledAlong(b, wavePaths0[b])
    /\ b.waveStart = "start" => wavePaths[b][1] = [x |-> b.x1, y |-> b.y1]
    /\ wavePaths0[b][1] = [x |-> b.x1, y |-> b.y1]

C4_Witness ==
  /\ variant = 1
  /\ angleDegrees = 15
  /\ length(reflectedBeam) > 31 * step
  /\ Len(wavePaths[reflectedBeam]) = 33
  /\ wavePaths[reflectedBeam][1] = [x |-> reflectedStartX, y |-> reflectedStartY]

\* C11: the five segments form a connected path: the reflected and the
\* refracted beam start at the incident beam's end on the film top, the
\* internally reflected beam starts at the refracted beam's end on
\* y = filmBottom and ends on the film top, and the transmitted beam starts
\* at the internally reflected beam's end.
C11_ConnectedPath ==
  /\ incidentEndY = filmTop
  /\ reflectedStartX = incidentEndX /\ reflectedStartY = incidentEndY
  /\ refractedStartX = incidentEndX /\ refractedStartY = incidentEndY
  /\ refractedEndY = filmBottom
  /\ substrateReflectedStartX = refractedEndX
  /\ substrateReflectedStartY = refractedEndY
  /\ substrateReflectedEndY = filmTop
  /\ variant = 1 =>
       /\ finalTransmissionStartX = substrateReflectedEndX
       /\ finalTransmissionStartY = substrateReflectedEndY

\* C12: the phase passed to the transmitted beam is
\* 2 pi (L_refracted + L_internal) / filmWavelengthPx, less pi when
\* filmN < substrateN (MgF2), and it is the exact negation of the phase
\* passed to the internally reflected beam.
C12_TransmittedPhase ==
  variant = 1 =>
    LET m == filmMaterials[selectedFilmIndex + 1]
        out == transmittedBeam.phaseShift
        back == substrateReflectedBeam.phaseShift
        travelled == PhaseOver(refractedPathLength, filmWavelengthPx)
                       + PhaseOver(substrateReflectionPathLength, filmWavelengthPx)
    IN /\ transmittedBeam.hasPhaseShift /\ substrateReflectedBeam.hasPhaseShift
       /\ out = travelled - (IF m.n < substrateN THEN PI ELSE 0)
       /\ m.label = "MgF2" => out = travelled - PI
       /\ m.label \in {"SiO2", "Test"} => out = travelled
       /\ out = -back

C12_Witness ==
  /\ variant = 1
  /\ filmMaterials[selectedFilmIndex + 1].label = "MgF2"
  /\ filmThicknessNm = filmThicknessRange.max
  /\ angleDegrees = angleRange.max
  /\ refractedPathLength > filmThickness
  /\ transmittedBeam.phaseShift > 0
  /\ transmittedBeam.phaseShift = -finalTransmissionPhaseShift

\* C13: on a beam with waveStart = 'end', sample i of N takes its phase at
\* 1 - i/N and its sine negated, the points still advance from the start to
\* the end, and the last sample has offset 0 and is the end point (x2, y2).
C13_FromEndMirrored ==
  \A b \in Beams :
    b.waveStart = "end" =>
      LET len == length(b)
          path == wavePaths[b]
          n == Len(path) - 1
      IN /\ \A i \in 0 .. n :
              LET t == WaveT(i, n)
                  arc == PhaseOver(Times(len, Scale - t), wavelengthPx(b))
              IN WaveOffset(b, t, len) = -Times(amplitude, Sin(arc))
         /\ \A k \in 1 .. n : Along(b, path[k]) < Along(b, path[k + 1])
         /\ WaveOffset(b, WaveT(n, n), len) = 0
         /\ path[n + 1] = [x |-> b.x2, y |-> b.y2]

C13_Witness ==
  /\ variant = 1
  /\ angleDegrees = angleRange.max
  /\ filmThicknessNm = filmThicknessRange.max
  /\ substrateReflectedBeam.waveStart = "end"
  /\ LET path == wavePaths[substrateReflectedBeam]
     IN /\ Len(path) > 2
        /\ path[Len(path)] = [x |-> substrateReflectedEndX, y |-> substrateReflectedEndY]
        /\ path[1] # [x |-> substrateReflectedStartX, y |-> substrateReflectedStartY]

\* a coordinate that is a number of the drawing, not NaN nor out of range
Finite(x) == x # NaN /\ Abs(x) < 2^20

\* C14: every beam the page draws has a positive length, so numPoints >= 1,
\* t = i / numPoints is never 0 / 0, and every point of the path is finite.
C14_PositiveLength ==
  \A b \in Beams :
    /\ Finite(b.x1) /\ Finite(b.y1) /\ Finite(b.x2) /\ Finite(b.y2)
    /\ length(b) > 0
    /\ numPoints(b) >= 1
    /\ \A i \in 0 .. numPoints(b) : WaveT(i, numPoints(b)) # NaN
    /\ LET path == generateWavePath(b)
       IN /\ Len(path) = numPoints(b) + 1
          /\ \A k \in 1 .. Len(path) : Finite(path[k].x) /\ Finite(path[k].y)

C14_Witness ==
  /\ variant = 1
  /\ filmThicknessNm = filmThicknessRange.min
  /\ angleDegrees = angleRange.min
  /\ length(refractedBeam) = filmThicknessRange.min * nmToPixels
  /\ numPoints(refractedBeam) = 1
  /\ Len(wavePaths[refractedBeam]) = 2

\* C15: an input that leaves the angle unchanged (a change of material or
\* of thickness) leaves the incident and the reflected beam's endpoints
\* unchanged; one that also leaves the material unchanged (a change of
\* thickness) leaves the refraction angle and the transmitted beam's
\* direction unchanged.
C15_Frame ==
  previous.angleDegrees = angleDegrees =>
    LET now == Shown
    IN /\ now.incident = previous.incident
       /\ now.reflected = previous.reflected
       /\ previous.selectedFilmIndex = selectedFilmIndex =>
            /\ now.refractedAngleRad = previous.refractedAngleRad
            /\ now.transmitted = previous.transmitted

C15_Witness ==
  /\ variant = 1
  /\ angleDegrees = angleRange.max
  /\ previous.angleDegrees = angleDegrees
  /\ previous.selectedFilmIndex = selectedFilmIndex
  /\ previous.filmThicknessNm = filmThicknessRange.min
  /\ filmThicknessNm = filmThicknessRange.max
  /\ previous.incident = <<centerX, beamStartY, incidentEndX, incidentEndY>>
  /\ incidentEndX > centerX

====
